---- MODULE Spec2Model ----
(***************************************************************************)
(* Request handling of the GEE mapper backend: the Flask handlers of       *)
(* app.py (get_map, get_pixel_value) and the Lambda handlers of            *)
(* lambda_function.py (get_map_data, get_pixel_value_data).                *)
(*                                                                         *)
(* Query parameters are texts (sequences of one-character strings) or      *)
(* absent; int(), float() and str.upper() are computed on the texts.  The  *)
(* remote Earth Engine service is the environment: every call to it takes  *)
(* one of its possible outcomes nondeterministically.                      *)
(*                                                                         *)
(* Spec is a process that serves its requests one after the other, through *)
(* the Flask routes or through lambda_handler; ThreadedSpec adds a second  *)
(* request served at the same time by another thread of the process.       *)
(*                                                                         *)
(* DeploySpec is deploy.py: LambdaDeployer.deploy() run several times      *)
(* against one AWS account and one working directory, every AWS call and   *)
(* every file operation succeeding or failing.                             *)
(***************************************************************************)
EXTENDS Integers, Sequences, FiniteSets, TLC

VARIABLES
    impl,       \* "flask" (app.py) or "lambda" (lambda_function.py)
    endpoint,   \* "map" or "pixel"
    req,        \* the raw query parameters of the request being served
    now,        \* datetime.now() of the request: [year, month]
    pc,         \* position of the handler
    loc,        \* the handler's local variables
    up,         \* outcomes of the remote calls made so far in this request
    calls,      \* external operations invoked so far in this request, in order
    resp,       \* the response returned: [status, body]
    http,       \* method and path of the request being served
    proc,       \* what the process keeps from one request to the next
    peer,       \* position of a request served at the same time by another
                \* thread of the process; "off" where requests come one by one
    dpc,        \* position of LambdaDeployer.deploy()
    disk,       \* the working directory of deploy.py
    cloud,      \* the AWS account: IAM role, Lambda function, REST API
    run         \* the run of deploy() in hand: its locals and what it has done

\* The variables of the deployment script
dvars == <<dpc, disk, cloud, run>>

\* The variables of the serving process
svars == <<impl, endpoint, req, now, pc, loc, up, calls, resp, http, proc, peer>>

vars == <<impl, endpoint, req, now, pc, loc, up, calls, resp, http, proc, peer,
          dpc, disk, cloud, run>>

----------------------------------------------------------------------------
(* Texts and the Python conversions applied to them *)

Absent == [present |-> FALSE, text |-> <<>>]
Arg(t) == [present |-> TRUE, text |-> t]

IsDigit(c) == c \in {"0", "1", "2", "3", "4", "5", "6", "7", "8", "9"}

DigitVal(c) ==
    CASE c = "0" -> 0 [] c = "1" -> 1 [] c = "2" -> 2 [] c = "3" -> 3
      [] c = "4" -> 4 [] c = "5" -> 5 [] c = "6" -> 6 [] c = "7" -> 7
      [] c = "8" -> 8 [] c = "9" -> 9

RECURSIVE DigitsVal(_)
DigitsVal(s) ==
    IF s = <<>> THEN 0
    ELSE 10 * DigitsVal(SubSeq(s, 1, Len(s) - 1)) + DigitVal(s[Len(s)])

RECURSIVE LStrip(_)
LStrip(s) == IF s # <<>> /\ s[1] = " " THEN LStrip(Tail(s)) ELSE s

RECURSIVE RStrip(_)
RStrip(s) ==
    IF s # <<>> /\ s[Len(s)] = " " THEN RStrip(SubSeq(s, 1, Len(s) - 1)) ELSE s

Strip(s) == RStrip(LStrip(s))

AllDigits(s) == \A i \in 1..Len(s) : IsDigit(s[i])

\* int(text): surrounding blanks, an optional sign, one or more digits;
\* anything else raises ValueError (ok = FALSE).
PyInt(s) ==
    LET t      == Strip(s)
        signed == t # <<>> /\ t[1] \in {"+", "-"}
        neg    == t # <<>> /\ t[1] = "-"
        d      == IF signed THEN Tail(t) ELSE t
        ok     == d # <<>> /\ AllDigits(d)
    IN  [ok |-> ok,
         val |-> IF ok THEN (IF neg THEN 0 - DigitsVal(d) ELSE DigitsVal(d)) ELSE 0]

UpperChar(c) ==
    CASE c = "l" -> "L" [] c = "s" -> "S" [] c = "t" -> "T" [] c = "n" -> "N"
      [] c = "d" -> "D" [] c = "v" -> "V" [] c = "i" -> "I" [] c = "x" -> "X"
      [] c = "a" -> "A" [] c = "f" -> "F"
      [] OTHER -> c

\* str.upper()
Upper(s) == [i \in 1..Len(s) |-> UpperChar(s[i])]

RECURSIVE Pow10(_)
Pow10(n) == IF n = 0 THEN 1 ELSE 10 * Pow10(n - 1)

DotAt(s) == {i \in 1..Len(s) : s[i] = "."}

\* float(text): surrounding blanks, an optional sign, then nan, inf,
\* infinity (any case) or a decimal numeral with at least one digit.  The
\* value of a numeral is num/den; anything else raises ValueError.
PyFloat(s) ==
    LET t      == Strip(s)
        signed == t # <<>> /\ t[1] \in {"+", "-"}
        neg    == t # <<>> /\ t[1] = "-"
        d      == IF signed THEN Tail(t) ELSE t
        u      == Upper(d)
        dots   == DotAt(d)
        dot    == IF dots = {} THEN Len(d) + 1 ELSE CHOOSE i \in dots : TRUE
        ip     == SubSeq(d, 1, dot - 1)
        fp     == SubSeq(d, dot + 1, Len(d))
        isnum  == /\ Cardinality(dots) <= 1
                  /\ AllDigits(ip) /\ AllDigits(fp)
                  /\ Len(ip) + Len(fp) > 0
        mag    == DigitsVal(ip \o fp)
    IN  IF u = <<"N", "A", "N">> THEN [kind |-> "nan", num |-> 0, den |-> 1]
        ELSE IF u \in {<<"I", "N", "F">>, <<"I", "N", "F", "I", "N", "I", "T", "Y">>}
             THEN [kind |-> "inf", num |-> IF neg THEN -1 ELSE 1, den |-> 1]
        ELSE IF isnum
             THEN [kind |-> "num", num |-> IF neg THEN 0 - mag ELSE mag,
                   den |-> Pow10(Len(fp))]
        ELSE [kind |-> "error", num |-> 0, den |-> 1]

\* lo <= x <= hi for a float x and integers lo, hi (False for nan).
FloatBetween(lo, x, hi) ==
    /\ x.kind = "num"
    /\ lo * x.den <= x.num
    /\ x.num <= hi * x.den

None == [kind |-> "none", num |-> 0, den |-> 1]

----------------------------------------------------------------------------
(* Program constants *)

MinYear      == 2000
DefaultYear  == 2024
DefaultMonth == 7
MaxLat       == 90
MaxLng       == 180

LST  == <<"L", "S", "T">>
NDVI == <<"N", "D", "V", "I">>

DefaultAoi == [kind |-> "rectangle", coords |-> <<-65, -10, -55, -2>>]

----------------------------------------------------------------------------
(* Inputs of the model *)

LastNowYear == 2025

NowDates == [year : (LastNowYear - 1)..LastNowYear, month : {6, 12}]

YearArgs ==
    {Absent,
     Arg(<<"1", "9", "9", "9">>), Arg(<<"2", "0", "0", "0">>),
     Arg(<<"2", "0", "2", "4">>), Arg(<<"2", "0", "2", "5">>),
     Arg(<<"2", "0", "2", "7">>), Arg(<<"2", "0", "x">>)}

MonthArgs ==
    {Absent, Arg(<<"0">>), Arg(<<"6">>), Arg(<<"1", "2">>), Arg(<<"1", "3">>),
     Arg(<<"x">>)}

TypeArgs ==
    {Absent, Arg(<<"l", "s", "t">>), Arg(<<"N", "d", "v", "i">>),
     Arg(<<"L", "S", "T", "x">>)}

LatArgs ==
    {Absent, Arg(<<"-", "6">>), Arg(<<"9", "0">>), Arg(<<"-", "9", "0">>),
     Arg(<<"9", "0", ".", "5">>), Arg(<<"-", "9", "1">>), Arg(<<"n", "a", "n">>),
     Arg(<<"x">>)}

LngArgs ==
    {Absent, Arg(<<"-", "6", "0">>), Arg(<<"1", "8", "0">>),
     Arg(<<"-", "1", "8", "0">>), Arg(<<"1", "8", "1">>), Arg(<<"x">>)}

\* The aoi query parameter, by the text it carries.
AoiRect    == "{\"type\":\"rectangle\",\"bounds\":[-60,-5,-58,-3]}"
AoiPolygon == "{\"type\":\"polygon\",\"coordinates\":[[-60,-5],[-58,-5],[-58,-3]]}"
AoiCircle  == "{\"type\":\"circle\",\"radius\":3}"
AoiBroken  == "{\"type\":"
AoiBlank   == " "
AoiList    == "[-60,-5,-58,-3]"
AoiNoType  == "{\"bounds\":[-60,-5,-58,-3]}"
AoiNoBounds      == "{\"type\":\"rectangle\"}"
AoiNoCoordinates == "{\"type\":\"polygon\"}"
AoiBadBounds     == "{\"type\":\"rectangle\",\"bounds\":[-60,-5,-58]}"

AbsentAoi == [present |-> FALSE, text |-> ""]

AoiArgs ==
    {AbsentAoi, Arg(""), Arg(AoiBlank), Arg(AoiBroken), Arg(AoiCircle), Arg(AoiRect),
     Arg(AoiPolygon), Arg(AoiList), Arg(AoiNoType), Arg(AoiNoBounds),
     Arg(AoiNoCoordinates), Arg(AoiBadBounds)}

Impls == {"flask", "lambda"}
Endpoints == {"map", "pixel"}

\* The query strings the model sends: a map request carries no lat/lng.
Requests(e) ==
    IF e = "map"
    THEN [year : YearArgs, month : MonthArgs, type : TypeArgs,
          lat : {Absent}, lng : {Absent}, aoi : AoiArgs]
    ELSE [year : YearArgs, month : MonthArgs, type : TypeArgs,
          lat : LatArgs, lng : LngArgs, aoi : {AbsentAoi}]

\* The requests that follow the first request of a process, and those served
\* while another request is running.
LaterRequests(e) ==
    IF e = "map"
    THEN [year : {Absent}, month : {Absent, Arg(<<"1", "3">>)},
          type : {Absent, Arg(<<"N", "d", "v", "i">>)},
          lat : {Absent}, lng : {Absent}, aoi : {AbsentAoi}]
    ELSE [year : {Absent}, month : {Absent, Arg(<<"1", "3">>)},
          type : {Absent, Arg(<<"N", "d", "v", "i">>)},
          lat : {Arg(<<"-", "6">>)}, lng : {Arg(<<"-", "6", "0">>)},
          aoi : {AbsentAoi}]

\* Number of requests a process serves in the model
MaxRequests == 3

\* Paths of the requests
ApiMap   == <<"/", "a", "p", "i", "/", "m", "a", "p">>
ApiPixel == <<"/", "a", "p", "i", "/", "p", "i", "x", "e", "l", "_", "v", "a", "l",
              "u", "e">>
StageMap == <<"/", "p", "r", "o", "d", "/", "m", "a", "p">>
RoadMap  == <<"/", "r", "o", "a", "d", "m", "a", "p">>
Root     == <<"/">>

\* 'path' of a Lambda event: a text, or None
NullPath == [null |-> TRUE, text |-> <<>>]
PathOf(t) == [null |-> FALSE, text |-> t]

\* event.get('httpMethod', 'GET'), event.get('path', '/'): an event without
\* the key is the event with the default.
EventMethods == {"GET", "POST", "OPTIONS"}
EventPaths ==
    {NullPath, PathOf(Root), PathOf(ApiMap), PathOf(ApiPixel), PathOf(StageMap),
     PathOf(RoadMap)}

EndpointPath(e) == IF e = "map" THEN PathOf(ApiMap) ELSE PathOf(ApiPixel)

----------------------------------------------------------------------------
(* Reading the query parameters *)

\* werkzeug: request.args.get(key, default=d, type=int): the default when the
\* key is missing and when int() raises ValueError.
ArgsGetInt(a, d) ==
    IF ~a.present THEN d
    ELSE IF PyInt(a.text).ok THEN PyInt(a.text).val ELSE d

\* request.args.get(key, type=float): None when missing or unparsable.
ArgsGetFloat(a) ==
    IF ~a.present THEN None
    ELSE IF PyFloat(a.text).kind = "error" THEN None ELSE PyFloat(a.text)

\* request.args.get('type', default='LST', type=str).upper() and
\* query_params.get('type', 'LST').upper()
GetDataType(a) == IF a.present THEN Upper(a.text) ELSE LST

\* int(query_params.get(key, d)): raises on a text that is no integer.
DictGetInt(a, d) ==
    IF ~a.present THEN [ok |-> TRUE, val |-> d] ELSE PyInt(a.text)

\* float(query_params.get(key)): TypeError when missing, ValueError when
\* unparsable.
DictGetFloat(a) ==
    IF ~a.present THEN [kind |-> "error", num |-> 0, den |-> 1] ELSE PyFloat(a.text)

----------------------------------------------------------------------------
(* Validation *)

\* The year check with its upper bound left out
YearInRange_NoUpperBound(year, cur) == MinYear <= year

YearInRange(year, cur) == MinYear <= year /\ year <= cur.year

MonthInRange(month) == 1 <= month /\ month <= 12

TypeKnown(data_type) == data_type \in {LST, NDVI}

LatInRange(lat) == FloatBetween(0 - MaxLat, lat, MaxLat)

LngInRange(lng) == FloatBetween(0 - MaxLng, lng, MaxLng)

FlaskFutureDate(year, month, cur) ==
    year > cur.year \/ (year = cur.year /\ month > cur.month)

LambdaFutureDate(year, month, cur) ==
    year = cur.year /\ month > cur.month

----------------------------------------------------------------------------
(* Locals, responses *)

NoGeometry == [kind |-> "none", coords |-> <<>>]

\* start_date and end_date before they are computed
NoDate == [year |-> 0, month |-> 0, day |-> 0, text |-> ""]

Loc0 ==
    [year |-> 0, month |-> 0, data_type |-> <<>>, lat |-> None, lng |-> None,
     aoi |-> NoGeometry, project_id |-> "", image |-> "none",
     pixel_value |-> None, image_date |-> <<>>,
     collection |-> "", start_date |-> NoDate, end_date |-> NoDate]

NoResp == [status |-> 0, body |-> <<>>, headers |-> {}]

Up0 ==
    [init |-> "none", coll |-> "none", size |-> "none", info |-> "none",
     mapid |-> "none", sample |-> "none", value |-> "none", date |-> "none"]

\* 'LST' / 'NDVI' as printed in a message or echoed in a body
TypeName(data_type) == IF data_type = LST THEN "LST" ELSE "NDVI"

ErrorBody(msg) == [error |-> msg]

Reply(status, body) == [kind |-> "reply", status |-> status, body |-> body, loc |-> Loc0]
Pass(l) == [kind |-> "pass", status |-> 0, body |-> <<>>, loc |-> l]

YearMessage(cur) == <<"Year must be between 2000 and ", ToString(cur.year)>>
MonthMessage     == <<"Month must be between 1 and 12">>
TypeMessage      == <<"Data type must be 'LST' or 'NDVI'">>
FutureMessage    == <<"Cannot request future dates">>
LatMessage       == <<"Latitude must be between -90 and 90">>
LngMessage       == <<"Longitude must be between -180 and 180">>

AllowOrigin == <<"Access-Control-Allow-Origin", "*">>

\* Response headers without the Access-Control-Allow-Origin entry
JsonHeaders_ContentTypeOnly == {<<"Content-Type", "application/json">>}

\* 'headers' of every response the handlers build (in Flask: jsonify and
\* CORS(app))
JsonHeaders == {<<"Content-Type", "application/json">>, AllowOrigin}

\* 'headers' of the reply to OPTIONS
PreflightHeaders ==
    {AllowOrigin, <<"Access-Control-Allow-Methods", "GET, POST, OPTIONS">>,
     <<"Access-Control-Allow-Headers", "Content-Type">>}

\* except Exception as e of get_map / get_map_data
MapServerError(e) == [status |-> 500, body |-> ErrorBody(<<"Server error: ", e>>),
                      headers |-> JsonHeaders]

\* A 500 without a body
PixelServerError_NoBody(e) == [status |-> 500, body |-> <<>>, headers |-> JsonHeaders]

\* except Exception as e of get_pixel_value / get_pixel_value_data
PixelServerError(e) ==
    [status |-> 500, body |-> ErrorBody(<<"Error getting pixel value: ", e>>),
     headers |-> JsonHeaders]

\* The except clause answering 400
ServerError_BadRequest(e, ep) ==
    [status |-> 400, body |-> ErrorBody(<<"Server error: ", e>>),
     headers |-> JsonHeaders]

ServerError(e, ep) == IF ep = "map" THEN MapServerError(e) ELSE PixelServerError(e)

----------------------------------------------------------------------------
(* The four handlers up to the call of initialize_gee *)

get_map_validate(q, cur) ==
    LET year      == ArgsGetInt(q.year, DefaultYear)
        month     == ArgsGetInt(q.month, DefaultMonth)
        data_type == GetDataType(q.type)
    IN  IF ~YearInRange(year, cur) THEN Reply(400, ErrorBody(YearMessage(cur)))
        ELSE IF ~MonthInRange(month) THEN Reply(400, ErrorBody(MonthMessage))
        ELSE IF ~TypeKnown(data_type) THEN Reply(400, ErrorBody(TypeMessage))
        ELSE IF FlaskFutureDate(year, month, cur)
             THEN Reply(400, ErrorBody(FutureMessage))
        ELSE Pass([Loc0 EXCEPT !.year = year, !.month = month,
                               !.data_type = data_type])

get_pixel_value_validate(q, cur) ==
    LET lat       == ArgsGetFloat(q.lat)
        lng       == ArgsGetFloat(q.lng)
        year      == ArgsGetInt(q.year, DefaultYear)
        month     == ArgsGetInt(q.month, DefaultMonth)
        data_type == GetDataType(q.type)
    IN  IF lat = None \/ lng = None
        THEN Reply(400, ErrorBody(<<"Latitude and longitude are required">>))
        ELSE IF ~LatInRange(lat) THEN Reply(400, ErrorBody(LatMessage))
        ELSE IF ~LngInRange(lng) THEN Reply(400, ErrorBody(LngMessage))
        ELSE IF ~TypeKnown(data_type) THEN Reply(400, ErrorBody(TypeMessage))
        ELSE IF ~YearInRange(year, cur) THEN Reply(400, ErrorBody(YearMessage(cur)))
        ELSE IF ~MonthInRange(month) THEN Reply(400, ErrorBody(MonthMessage))
        ELSE IF FlaskFutureDate(year, month, cur)
             THEN Reply(400, ErrorBody(FutureMessage))
        ELSE Pass([Loc0 EXCEPT !.year = year, !.month = month,
                               !.data_type = data_type, !.lat = lat, !.lng = lng])

get_map_data_validate(q, cur) ==
    LET y         == DictGetInt(q.year, DefaultYear)
        m         == DictGetInt(q.month, DefaultMonth)
        year      == y.val
        month     == m.val
        data_type == GetDataType(q.type)
    IN  IF ~y.ok \/ ~m.ok
        THEN [kind |-> "raise", status |-> 0, body |-> <<>>, loc |-> Loc0]
        ELSE IF ~YearInRange(year, cur) THEN Reply(400, ErrorBody(YearMessage(cur)))
        ELSE IF ~MonthInRange(month) THEN Reply(400, ErrorBody(MonthMessage))
        ELSE IF ~TypeKnown(data_type) THEN Reply(400, ErrorBody(TypeMessage))
        ELSE IF LambdaFutureDate(year, month, cur)
             THEN Reply(400, ErrorBody(FutureMessage))
        ELSE Pass([Loc0 EXCEPT !.year = year, !.month = month,
                               !.data_type = data_type])

get_pixel_value_data_validate(q, cur) ==
    LET lat       == DictGetFloat(q.lat)
        lng       == DictGetFloat(q.lng)
        y         == DictGetInt(q.year, DefaultYear)
        m         == DictGetInt(q.month, DefaultMonth)
        year      == y.val
        month     == m.val
        data_type == GetDataType(q.type)
    IN  IF lat.kind = "error" \/ lng.kind = "error"
        THEN Reply(400, ErrorBody(
                 <<"Latitude and longitude are required and must be numbers">>))
        ELSE IF ~y.ok \/ ~m.ok
        THEN [kind |-> "raise", status |-> 0, body |-> <<>>, loc |-> Loc0]
        ELSE IF ~LatInRange(lat) THEN Reply(400, ErrorBody(LatMessage))
        ELSE IF ~LngInRange(lng) THEN Reply(400, ErrorBody(LngMessage))
        ELSE IF ~TypeKnown(data_type) THEN Reply(400, ErrorBody(TypeMessage))
        ELSE IF ~YearInRange(year, cur) THEN Reply(400, ErrorBody(YearMessage(cur)))
        ELSE IF ~MonthInRange(month) THEN Reply(400, ErrorBody(MonthMessage))
        ELSE IF LambdaFutureDate(year, month, cur)
             THEN Reply(400, ErrorBody(FutureMessage))
        ELSE Pass([Loc0 EXCEPT !.year = year, !.month = month,
                               !.data_type = data_type, !.lat = lat, !.lng = lng])

\* event['queryStringParameters'] of a Lambda event: a dict, null (what API
\* Gateway sends for a request without a query string), or no such key.
\* request.args of Flask is always a dict.
QueryKinds == {"dict", "null", "missing"}

NoRequest ==
    [year |-> Absent, month |-> Absent, type |-> Absent,
     lat |-> Absent, lng |-> Absent, aoi |-> AbsentAoi]

\* event.get('queryStringParameters', {}) alone: None stays None, and
\* None.get raises
QueryParams_WithoutOr(k, q) ==
    [ok |-> k # "null", params |-> IF k = "dict" THEN q ELSE NoRequest]

\* query_params = event.get('queryStringParameters', {}) or {}
QueryParams(k, q) == [ok |-> TRUE, params |-> IF k = "dict" THEN q ELSE NoRequest]

HandlerValidate(i, e, q, cur) ==
    IF i = "flask"
    THEN (IF e = "map" THEN get_map_validate(q, cur)
          ELSE get_pixel_value_validate(q, cur))
    ELSE (IF e = "map" THEN get_map_data_validate(q, cur)
          ELSE get_pixel_value_data_validate(q, cur))

----------------------------------------------------------------------------
(* deploy.py: the state a deployment starts from *)

\* The working directory before the first run: no lambda_deployment.zip
Disk0 == [zip |-> FALSE]

\* pathPart of the two endpoints under /api
EndpointNames == {"map", "pixel_value"}

\* An account in which nothing of the stack exists yet
NoApi ==
    [count |-> 0, api_resource |-> FALSE,
     endpoints |-> [e \in EndpointNames |-> {}], deployed |-> FALSE]

Cloud0 ==
    [role |-> [exists |-> FALSE, policy |-> FALSE],
     function |-> [exists |-> FALSE, code |-> 0, config |-> 0],
     api |-> NoApi,
     permissions |-> {}]

\* No run of deploy() yet
Run0 ==
    [n |-> 0, steps |-> <<>>, zip_path |-> FALSE, wrote |-> FALSE,
     result |-> "none", prev |-> "none", before |-> Cloud0, time |-> 0]

----------------------------------------------------------------------------
(* State machine *)

\* The clock does not run backwards.
NotBefore(a, b) == a.year > b.year \/ (a.year = b.year /\ a.month >= b.month)

NoHttp == [method |-> "", path |-> PathOf(<<>>), query |-> "dict"]

\* The process at its start: the environment variables not read yet, the
\* ee library without a session, no key file written, no request served.
Proc0 == [env |-> "unread", session |-> "none", key_files |-> 0, served |-> 0]

\* The state of a process that has just started; p is "off" for a process
\* that serves its requests one by one and "idle" for one that serves them in
\* threads.
Start(p) ==
    /\ impl = "flask"
    /\ endpoint = "map"
    /\ req = NoRequest
    /\ now \in NowDates
    /\ pc = "idle"
    /\ loc = Loc0
    /\ up = Up0
    /\ calls = <<>>
    /\ resp = NoResp
    /\ http = NoHttp
    /\ proc = Proc0
    /\ peer = p
    /\ dpc = "idle"
    /\ disk = Disk0
    /\ cloud = Cloud0
    /\ run = Run0

Init == Start("off")

\* The first request of a process that serves one request at a time ranges
\* over all the inputs of the model.
RequestsFor(e) ==
    IF proc.served = 0 /\ peer = "off" THEN Requests(e) ELSE LaterRequests(e)

\* A GET request for /api/map or /api/pixel_value arrives at its handler:
\* through the Flask route, or through lambda_handler.
Receive ==
    /\ pc = "idle"
    /\ proc.served < MaxRequests
    /\ \E i \in Impls, e \in Endpoints, k \in QueryKinds :
         /\ i = "flask" => k = "dict"
         /\ impl' = i
         /\ endpoint' = e
         /\ req' \in (IF k = "dict" THEN RequestsFor(e) ELSE {NoRequest})
         /\ http' = [method |-> "GET", path |-> EndpointPath(e), query |-> k]
    /\ now' \in {d \in NowDates : NotBefore(d, now)}
    /\ pc' = "validate"
    /\ loc' = Loc0
    /\ up' = Up0
    /\ calls' = <<>>
    /\ resp' = NoResp
    /\ proc' = [proc EXCEPT !.served = @ + 1]
    /\ UNCHANGED peer
    /\ UNCHANGED dvars

\* str.endswith
EndsWith(t, suffix) ==
    /\ Len(t) >= Len(suffix)
    /\ SubSeq(t, Len(t) - Len(suffix) + 1, Len(t)) = suffix

\* lambda_handler: where an event goes.  None has no endswith: the test of
\* the path raises AttributeError.
Route(method, path) ==
    IF method = "OPTIONS" THEN "options"
    ELSE IF path.null THEN "raise"
    ELSE IF path.text = ApiMap \/ EndsWith(path.text, <<"/", "m", "a", "p">>)
         THEN "map"
    ELSE IF path.text = ApiPixel
              \/ EndsWith(path.text, <<"/", "p", "i", "x", "e", "l", "_", "v", "a",
                                       "l", "u", "e">>)
         THEN "pixel"
    ELSE "not_found"

\* The responses lambda_handler builds itself
RouterReply(r) ==
    CASE r = "options"   -> [status |-> 200, body |-> <<>>, headers |-> PreflightHeaders]
      [] r = "not_found" -> [status |-> 404, body |-> ErrorBody(<<"Not found">>),
                             headers |-> JsonHeaders]
      [] r = "raise"     ->
           [status |-> 500, body |-> ErrorBody(<<"Lambda error: ", "AttributeError">>),
            headers |-> JsonHeaders]

\* Any other event arrives at lambda_handler: it answers itself, or passes
\* the event to get_map_data or get_pixel_value_data.
LambdaHandler ==
    /\ pc = "idle"
    /\ proc.served < MaxRequests
    /\ impl' = "lambda"
    /\ \E m \in EventMethods, p \in EventPaths :
         /\ ~(m = "GET" /\ p \in {PathOf(ApiMap), PathOf(ApiPixel)})
         /\ http' = [method |-> m, path |-> p, query |-> "dict"]
         /\ IF Route(m, p) \in Endpoints
            THEN /\ endpoint' = Route(m, p)
                 /\ req' \in LaterRequests(Route(m, p))
                 /\ pc' = "validate"
                 /\ resp' = NoResp
            ELSE /\ endpoint' = "none"
                 /\ req' = NoRequest
                 /\ pc' = "done"
                 /\ resp' = RouterReply(Route(m, p))
    /\ now' \in {d \in NowDates : NotBefore(d, now)}
    /\ loc' = Loc0
    /\ up' = Up0
    /\ calls' = <<>>
    /\ proc' = [proc EXCEPT !.served = @ + 1]
    /\ UNCHANGED peer
    /\ UNCHANGED dvars

\* The handler takes the parameters from the request or the event, and
\* validates them.
EventValidate(i, e, k, q, cur) ==
    LET qp == IF i = "flask" THEN [ok |-> TRUE, params |-> q] ELSE QueryParams(k, q)
    IN  IF qp.ok THEN HandlerValidate(i, e, qp.params, cur)
        ELSE [kind |-> "raise", status |-> 0, body |-> <<>>, loc |-> Loc0]

\* The handler reads and validates its parameters.
Validate ==
    /\ pc = "validate"
    /\ LET v == EventValidate(impl, endpoint, http.query, req, now)
       IN  CASE v.kind = "pass" ->
                  /\ pc' = "init"
                  /\ loc' = v.loc
                  /\ resp' = resp
             [] v.kind = "reply" ->
                  /\ pc' = "done"
                  /\ loc' = loc
                  /\ resp' = [status |-> v.status, body |-> v.body,
                              headers |-> JsonHeaders]
             [] v.kind = "raise" ->
                  /\ pc' = "done"
                  /\ loc' = loc
                  /\ resp' = ServerError("ValueError", endpoint)
    /\ UNCHANGED <<impl, endpoint, req, now, http, proc, peer, up, calls>>
    /\ UNCHANGED dvars

----------------------------------------------------------------------------
(* initialize_gee *)

\* How initialize_gee ends: it returns the project id, or raises because the
\* project id is missing, because the credentials cannot be built, or because
\* ee.Initialize fails.
InitOutcomes == {"ok", "no_project_id", "credentials_error", "initialize_error"}

\* ee.Initialize is reached unless an earlier line raised.
InitializeCalled(o) == o \in {"ok", "initialize_error"}

\* What os.environ holds: no project id; a project id and no service account;
\* a service account whose key is the path of a file; a service account
\* whose key is the text of the key, as JSON or base64.
EnvModes == {"no_project", "default_auth", "key_path", "key_text"}

\* The environment is the same for every request of a process; the model
\* fixes it when initialize_gee first reads it.
EnvRead(p) == IF p.env = "unread" THEN EnvModes ELSE {p.env}

\* How initialize_gee can end under an environment
InitAnswers(env) ==
    {o \in InitOutcomes :
        /\ o = "no_project_id" <=> env = "no_project"
        /\ o = "credentials_error" => env \in {"key_path", "key_text"}}

\* tempfile.NamedTemporaryFile(mode='w', suffix='.json', delete=False): the
\* file is written before the credentials are built and is never removed.
KeyFileCreated(env) == env = "key_text"

\* The external operations of one run of initialize_gee
InitCalls(env, o) ==
    (IF KeyFileCreated(env) THEN <<"NamedTemporaryFile">> ELSE <<>>)
        \o (IF InitializeCalled(o) THEN <<"Initialize">> ELSE <<>>)

\* The process after a failed run of initialize_gee that drops the session
AfterInitialize_FailureResets(p, env, o) ==
    [p EXCEPT !.env = env,
              !.key_files = IF KeyFileCreated(env) THEN @ + 1 ELSE @,
              !.session = IF o = "ok" THEN "project" ELSE "none"]

\* The process after one run of initialize_gee: one more key file where the
\* key is a text; the session of the ee library is the one a successful
\* ee.Initialize installs.
AfterInitialize(p, env, o) ==
    [p EXCEPT !.env = env,
              !.key_files = IF KeyFileCreated(env) THEN @ + 1 ELSE @,
              !.session = IF o = "ok" THEN "project" ELSE @]

\* The handler going on whenever ee.Initialize was reached
InitSucceeded_WhenCalled(o) == InitializeCalled(o)

\* project_id = initialize_gee(): the handler goes on when the call returns;
\* an exception goes to the handler's except clause.
InitSucceeded(o) == o = "ok"

InitializeGee ==
    /\ pc = "init"
    /\ \E env \in EnvRead(proc) : \E o \in InitAnswers(env) :
         /\ up' = [up EXCEPT !.init = o]
         /\ calls' = calls \o InitCalls(env, o)
         /\ proc' = AfterInitialize(proc, env, o)
         /\ IF InitSucceeded(o)
            THEN /\ pc' = IF endpoint = "map" THEN "aoi" ELSE "filter"
                 /\ loc' = [loc EXCEPT !.project_id = "project"]
                 /\ resp' = resp
            ELSE /\ pc' = "done"
                 /\ loc' = loc
                 /\ resp' = ServerError("Failed to initialize Google Earth Engine", endpoint)
    /\ UNCHANGED <<impl, endpoint, req, now, http, peer>>
    /\ UNCHANGED dvars

----------------------------------------------------------------------------
(* Area of interest *)

\* json.loads on the aoi texts of the model
JsonLoads(text) ==
    CASE text = AoiRect ->
           [ok |-> TRUE, kind |-> "object",
            value |-> [type |-> "rectangle", bounds |-> <<-60, -5, -58, -3>>]]
      [] text = AoiPolygon ->
           [ok |-> TRUE, kind |-> "object",
            value |-> [type |-> "polygon",
                       coordinates |-> <<<<-60, -5>>, <<-58, -5>>, <<-58, -3>>>>]]
      [] text = AoiCircle ->
           [ok |-> TRUE, kind |-> "object",
            value |-> [type |-> "circle", radius |-> 3]]
      [] text = AoiList ->
           [ok |-> TRUE, kind |-> "array", value |-> <<-60, -5, -58, -3>>]
      [] text = AoiNoType ->
           [ok |-> TRUE, kind |-> "object",
            value |-> [bounds |-> <<-60, -5, -58, -3>>]]
      [] text = AoiNoBounds ->
           [ok |-> TRUE, kind |-> "object", value |-> [type |-> "rectangle"]]
      [] text = AoiNoCoordinates ->
           [ok |-> TRUE, kind |-> "object", value |-> [type |-> "polygon"]]
      [] text = AoiBadBounds ->
           [ok |-> TRUE, kind |-> "object",
            value |-> [type |-> "rectangle", bounds |-> <<-60, -5, -58>>]]
      [] OTHER -> [ok |-> FALSE, kind |-> "none", value |-> <<>>]

\* str.strip() on the aoi texts of the model
TextStrip(text) == IF text = AoiBlank THEN "" ELSE text

\* if aoi_param: (app.py) / if aoi_param and aoi_param.strip(): (lambda)
AoiGiven(i, a) ==
    IF i = "flask"
    THEN a.present /\ a.text # ""
    ELSE a.present /\ a.text # "" /\ TextStrip(a.text) # ""

\* A rectangle built from whatever list it is given
GeometryRectangle_AnyList(bounds) ==
    [ok |-> TRUE, geometry |-> [kind |-> "rectangle", coords |-> bounds]]

\* ee.Geometry.Rectangle(bounds): two corners, that is four numbers; the
\* constructor raises on any other list.
GeometryRectangle(bounds) ==
    IF Len(bounds) = 4
    THEN [ok |-> TRUE, geometry |-> [kind |-> "rectangle", coords |-> bounds]]
    ELSE [ok |-> FALSE, geometry |-> NoGeometry]

\* The try block that builds the geometry; any exception gives the default.
ParseAoi(text) ==
    LET j == JsonLoads(text)
    IN  IF ~j.ok THEN DefaultAoi
        ELSE IF j.kind # "object" THEN DefaultAoi
        ELSE IF "type" \notin DOMAIN j.value THEN DefaultAoi
        ELSE IF j.value.type = "rectangle"
             THEN (IF "bounds" \in DOMAIN j.value
                   THEN (IF GeometryRectangle(j.value.bounds).ok
                         THEN GeometryRectangle(j.value.bounds).geometry
                         ELSE DefaultAoi)
                   ELSE DefaultAoi)
        ELSE IF j.value.type = "polygon"
             THEN (IF "coordinates" \in DOMAIN j.value
                   THEN [kind |-> "polygon", coords |-> j.value.coordinates]
                   ELSE DefaultAoi)
        ELSE DefaultAoi

ResolveAoi ==
    /\ pc = "aoi"
    /\ loc' = [loc EXCEPT !.aoi = IF AoiGiven(impl, req.aoi)
                                  THEN ParseAoi(req.aoi.text) ELSE DefaultAoi]
    /\ pc' = "filter"
    /\ UNCHANGED <<impl, endpoint, req, now, http, proc, peer, up, calls, resp>>
    /\ UNCHANGED dvars

----------------------------------------------------------------------------
(* The filtered collection *)

\* ee.ImageCollection(...) of the data type
CollectionId(data_type) ==
    IF data_type = LST THEN "MODIS/061/MOD11A2" ELSE "COPERNICUS/S2_SR_HARMONIZED"

\* {n:02d}
TwoDigits(n) == IF n < 10 THEN "0" \o ToString(n) ELSE ToString(n)

\* The first day of a month as the handlers write it, f'{year}-{month:02d}-01',
\* with the year, month and day the text names.
FirstOfMonth(year, month) ==
    [year |-> year, month |-> month, day |-> 1,
     text |-> ToString(year) \o "-" \o TwoDigits(month) \o "-01"]

StartDate(year, month) == FirstOfMonth(year, month)

\* The end date with no case for December
EndDate_NoDecemberCase(year, month) == FirstOfMonth(year, month + 1)

\* if month == 12: f'{year + 1}-01-01' else: f'{year}-{month + 1:02d}-01'
EndDate(year, month) ==
    IF month = 12 THEN FirstOfMonth(year + 1, 1) ELSE FirstOfMonth(year, month + 1)

\* What the catalogue holds for the filter: no image, or some.
CollectionStates == {"empty", "some"}

\* collection.filterDate(start_date, end_date).filterBounds(...): the handler
\* composes the filter; nothing is fetched yet.
FilterCollection ==
    /\ pc = "filter"
    /\ loc' = [loc EXCEPT !.collection = CollectionId(loc.data_type),
                          !.start_date = StartDate(loc.year, loc.month),
                          !.end_date = EndDate(loc.year, loc.month)]
    /\ \E c \in CollectionStates : up' = [up EXCEPT !.coll = c]
    /\ pc' = IF impl = "lambda" /\ endpoint = "map" THEN "info" ELSE "size"
    /\ UNCHANGED <<impl, endpoint, req, now, http, proc, peer, calls, resp>>
    /\ UNCHANGED dvars

----------------------------------------------------------------------------
(* Map handlers: get_map (app.py), get_map_data (lambda_function.py) *)

\* filtered_collection.size().getInfo()
SizeOutcomes == {"raise", "0", "n"}

\* The call fails, or it returns the size of the collection.
SizeAnswers(coll) ==
    {o \in SizeOutcomes : /\ o = "0" => coll = "empty"
                          /\ o = "n" => coll = "some"}

\* print(f"Collection size after filtering: {collection_size.getInfo()}"):
\* get_map only; an exception goes to the handler's except clause.
MapCollectionSize ==
    /\ pc = "size" /\ endpoint = "map"
    /\ \E o \in SizeAnswers(up.coll) :
         /\ up' = [up EXCEPT !.size = o]
         /\ calls' = Append(calls, "size.getInfo")
         /\ IF o = "raise"
            THEN /\ pc' = "done"
                 /\ resp' = MapServerError("EEException")
            ELSE /\ pc' = "info"
                 /\ resp' = resp
    /\ UNCHANGED <<impl, endpoint, req, now, http, proc, peer, loc>>
    /\ UNCHANGED dvars

\* LST: sort('system:time_start', False).first(); NDVI: median()
MapImage(data_type) == IF data_type = LST THEN "first" ELSE "median"

\* image.getInfo(): raises, returns nothing, or returns the image's info
InfoOutcomes == {"raise", "None", "info"}

\* The call fails, or it returns what the image is: first() of an empty
\* collection is nothing; median() of an empty collection is an image without
\* bands, whose info is not empty.
InfoAnswers(image, coll) ==
    {o \in InfoOutcomes : /\ o = "None" => (image = "first" /\ coll = "empty")
                          /\ o = "info" => ~(image = "first" /\ coll = "empty")}

NoDataMessage(data_type) ==
    <<"No ", TypeName(data_type),
      " data available for the specified time range and location">>

\* Status of the map handlers' no-data replies: jsonify(...) without a status
\* in get_map, 'statusCode': 404 in get_map_data.
MapNoDataStatus(i) == IF i = "flask" THEN 200 ELSE 404

ImageInfo ==
    /\ pc = "info"
    /\ \E o \in InfoAnswers(MapImage(loc.data_type), up.coll) :
         /\ up' = [up EXCEPT !.info = o]
         /\ calls' = Append(calls, "image.getInfo")
         /\ loc' = [loc EXCEPT !.image = MapImage(loc.data_type)]
         /\ CASE o = "None" ->
                   /\ pc' = "done"
                   /\ resp' = [status |-> MapNoDataStatus(impl),
                               body |-> ErrorBody(NoDataMessage(loc.data_type)),
                               headers |-> JsonHeaders]
              [] o = "raise" ->
                   /\ pc' = "done"
                   /\ resp' = [status |-> MapNoDataStatus(impl),
                               body |-> ErrorBody(<<"No data found: ", "EEException">>),
                               headers |-> JsonHeaders]
              [] o = "info" ->
                   /\ pc' = "mapid"
                   /\ resp' = resp
    /\ UNCHANGED <<impl, endpoint, req, now, http, proc, peer>>
    /\ UNCHANGED dvars

\* processed_image.getMapId(vis_params): raises, returns nothing, returns a
\* dict without mapid, or a dict with mapid and a tile_fetcher, with mapid and
\* a token, or with mapid alone.
MapIdOutcomes == {"raise", "None", "no_mapid", "tile_fetcher", "token", "plain"}

\* Status of the replies to a failed getMapId: 200 in get_map, 500 in
\* get_map_data.
MapIdFailureStatus(i) == IF i = "flask" THEN 200 ELSE 500

TileUrl(i, o, project_id) ==
    IF i = "flask" /\ o = "tile_fetcher" THEN <<"url_format">>
    ELSE IF o = "token"
         THEN <<"https://earthengine.googleapis.com/v1/projects/", project_id,
                "/maps/", "mapid", "/tiles/{z}/{x}/{y}?token=", "token">>
    ELSE <<"https://earthengine.googleapis.com/v1/", "projects/p/maps/mapid",
           "/tiles/{z}/{x}/{y}">>

UrlBody(url) == [url |-> url]

GetMapId ==
    /\ pc = "mapid"
    /\ \E o \in MapIdOutcomes :
         /\ up' = [up EXCEPT !.mapid = o]
         /\ calls' = Append(calls, "getMapId")
         /\ pc' = "done"
         /\ CASE o = "raise" ->
                   resp' = [status |-> MapIdFailureStatus(impl),
                            body |-> ErrorBody(<<"Failed to generate map ID: ",
                                                 "EEException">>),
                            headers |-> JsonHeaders]
              [] o \in {"None", "no_mapid"} ->
                   resp' = [status |-> MapIdFailureStatus(impl),
                            body |-> ErrorBody(<<"Failed to generate map tiles. Map ID: ",
                                                 o>>),
                            headers |-> JsonHeaders]
              [] OTHER ->
                   resp' = [status |-> 200,
                            body |-> UrlBody(TileUrl(impl, o, loc.project_id)),
                            headers |-> JsonHeaders]
    /\ UNCHANGED <<impl, endpoint, req, now, http, proc, peer, loc>>
    /\ UNCHANGED dvars

----------------------------------------------------------------------------
(* Pixel handlers: get_pixel_value (app.py), get_pixel_value_data (lambda) *)

\* Body of the reply to an empty collection: get_pixel_value echoes lat, lng,
\* year and month; get_pixel_value_data echoes data_type too.
EmptyCollectionBody(i, l) ==
    LET msg == <<"No ", TypeName(l.data_type),
                 " data available for this location and time period">>
    IN  IF i = "flask"
        THEN [error |-> msg, lat |-> l.lat, lng |-> l.lng, year |-> l.year,
              month |-> l.month]
        ELSE [error |-> msg, lat |-> l.lat, lng |-> l.lng, year |-> l.year,
              month |-> l.month, data_type |-> TypeName(l.data_type)]

\* Body of the other no-data replies of the pixel handlers
NoPixelBody(msg, l) ==
    [error |-> msg, lat |-> l.lat, lng |-> l.lng, year |-> l.year,
     month |-> l.month, data_type |-> TypeName(l.data_type)]

\* Status of the pixel handlers' no-data replies: jsonify(...) without a
\* status in get_pixel_value, 'statusCode': 404 in get_pixel_value_data.
PixelNoDataStatus(i) == IF i = "flask" THEN 200 ELSE 404

\* get_pixel_value selects as get_map does; get_pixel_value_data always takes
\* sort('system:time_start', False).first().
PixelImage(i, data_type) == IF i = "flask" THEN MapImage(data_type) ELSE "first"

PixelCollectionSize ==
    /\ pc = "size" /\ endpoint = "pixel"
    /\ \E o \in SizeAnswers(up.coll) :
         /\ up' = [up EXCEPT !.size = o]
         /\ calls' = Append(calls, "size.getInfo")
         /\ CASE o = "raise" ->
                   /\ pc' = "done"
                   /\ loc' = loc
                   /\ resp' = PixelServerError("EEException")
              [] o = "0" ->
                   /\ pc' = "done"
                   /\ loc' = loc
                   /\ resp' = [status |-> PixelNoDataStatus(impl),
                               body |-> EmptyCollectionBody(impl, loc),
                               headers |-> JsonHeaders]
              [] o = "n" ->
                   /\ pc' = "sample"
                   /\ loc' = [loc EXCEPT !.image = PixelImage(impl, loc.data_type)]
                   /\ resp' = resp
    /\ UNCHANGED <<impl, endpoint, req, now, http, proc, peer>>
    /\ UNCHANGED dvars

\* sample = processed_band.sample(point, 1000).first(): the deferred element,
\* or nothing.
SampleOutcomes == {"element", "None"}

\* sample.get(band_name).getInfo(): raises on a remote failure ("error") or
\* because the sample holds no feature ("no_match"), returns nothing, or
\* returns the band's value at the point.  The outcome names what the image
\* holds there: the stored LST_Day_1km number, or the NDVI of the B8 and B4
\* bands.
ValueOutcomes ==
    {"error", "no_match", "None", "15000", "13000", "0.123456", "0.8768", "-0.0456"}

\* The values an image of the data type can hold
ValueAnswers(data_type) ==
    {o \in ValueOutcomes :
        /\ o \in {"15000", "13000"} => data_type = LST
        /\ o \in {"0.123456", "0.8768", "-0.0456"} => data_type = NDVI}

\* lst_band.multiply(0.02).subtract(273.15)
ScaleLst(raw) == [kind |-> "num", num |-> raw * 2 - 27315, den |-> 100]

\* The number getInfo() returns
UpstreamValue(o) ==
    CASE o = "15000"    -> ScaleLst(15000)
      [] o = "13000"    -> ScaleLst(13000)
      [] o = "0.123456" -> [kind |-> "num", num |-> 123456, den |-> 1000000]
      [] o = "0.8768"   -> [kind |-> "num", num |-> 8768, den |-> 10000]
      [] o = "-0.0456"  -> [kind |-> "num", num |-> -456, den |-> 10000]
      [] OTHER          -> None

\* if sample is None: get_pixel_value_data only; get_pixel_value calls
\* sample.get on it, which raises AttributeError.
SampleNoneReply(i, l) ==
    IF i = "flask" THEN PixelServerError("AttributeError")
    ELSE [status |-> 404,
          body |-> NoPixelBody(<<"No ", TypeName(l.data_type),
              " data available at this location (possibly due to cloud cover or data gaps)">>,
              l),
          headers |-> JsonHeaders]

\* sample.get(band_name).getInfo() raised: caught by try/except in
\* get_pixel_value_data only.
ValueRaisedReply(i, l) ==
    IF i = "flask" THEN PixelServerError("EEException")
    ELSE [status |-> 404,
          body |-> NoPixelBody(<<"No ", TypeName(l.data_type),
              " data available at this location (data processing error)">>, l),
          headers |-> JsonHeaders]

\* The reply to a missing value with its text under "message"
ValueNoneReply_NoErrorKey(i, l) ==
    [status |-> PixelNoDataStatus(i),
     body |-> [message |-> <<"No data available at this exact location">>,
               lat |-> l.lat, lng |-> l.lng, year |-> l.year, month |-> l.month,
               data_type |-> TypeName(l.data_type)],
     headers |-> JsonHeaders]

\* if pixel_value is None:
ValueNoneReply(i, l) ==
    [status |-> PixelNoDataStatus(i),
     body |-> NoPixelBody(<<"No data available at this exact location">>, l),
     headers |-> JsonHeaders]

SamplePixel ==
    /\ pc = "sample"
    /\ \/ /\ up' = [up EXCEPT !.sample = "None"]
          /\ calls' = calls
          /\ pc' = "done"
          /\ loc' = loc
          /\ resp' = SampleNoneReply(impl, loc)
       \/ \E o \in ValueAnswers(loc.data_type) :
            /\ up' = [up EXCEPT !.sample = "element", !.value = o]
            /\ calls' = Append(calls, "sample.getInfo")
            /\ CASE o \in {"error", "no_match"} ->
                      /\ pc' = "done"
                      /\ loc' = loc
                      /\ resp' = ValueRaisedReply(impl, loc)
                 [] o = "None" ->
                      /\ pc' = "done"
                      /\ loc' = loc
                      /\ resp' = ValueNoneReply(impl, loc)
                 [] OTHER ->
                      /\ pc' = "date"
                      /\ loc' = [loc EXCEPT !.pixel_value = UpstreamValue(o)]
                      /\ resp' = resp
    /\ UNCHANGED <<impl, endpoint, req, now, http, proc, peer>>
    /\ UNCHANGED dvars

\* x cut after nd decimals
PyRound_Truncating(x, nd) ==
    IF x.den <= Pow10(nd) THEN x
    ELSE [kind |-> "num", num |-> (x.num * Pow10(nd)) \div x.den, den |-> Pow10(nd)]

\* round(x, nd) on the decimal value of x
PyRound(x, nd) ==
    IF x.den <= Pow10(nd) THEN x
    ELSE LET n  == x.num * Pow10(nd)
             fl == n \div x.den
             r  == n - fl * x.den
             q  == IF 2 * r > x.den THEN fl + 1
                   ELSE IF 2 * r < x.den THEN fl
                   ELSE IF fl % 2 = 0 THEN fl ELSE fl + 1
         IN  [kind |-> "num", num |-> q, den |-> Pow10(nd)]

\* f"{year}-{month:02d} (composite)"
CompositeDate(year, month) ==
    <<ToString(year), "-", IF month < 10 THEN "0" ELSE "", ToString(month),
      " (composite)">>

\* ee.Date(image.get('system:time_start')).format('YYYY-MM-dd').getInfo()
DateOutcomes == {"raise", "date"}

PixelBody(l, image_date) ==
    IF l.data_type = LST
    THEN [lat |-> l.lat, lng |-> l.lng, year |-> l.year, month |-> l.month,
          data_type |-> TypeName(l.data_type),
          temperature_celsius |-> PyRound(l.pixel_value, 2),
          image_date |-> image_date,
          message |-> <<"LST Temperature: ", PyRound(l.pixel_value, 2), "C">>]
    ELSE [lat |-> l.lat, lng |-> l.lng, year |-> l.year, month |-> l.month,
          data_type |-> TypeName(l.data_type),
          ndvi_value |-> PyRound(l.pixel_value, 3),
          image_date |-> image_date,
          message |-> <<"NDVI Value: ", PyRound(l.pixel_value, 3)>>]

\* The image date is fetched for LST and composed locally for NDVI; then the
\* handler returns the value.
ImageDate ==
    /\ pc = "date"
    /\ pc' = "done"
    /\ IF loc.data_type = LST
       THEN \E o \in DateOutcomes :
              /\ up' = [up EXCEPT !.date = o]
              /\ calls' = Append(calls, "date.getInfo")
              /\ IF o = "raise"
                 THEN /\ loc' = loc
                      /\ resp' = PixelServerError("EEException")
                 ELSE /\ loc' = [loc EXCEPT !.image_date = <<"YYYY-MM-dd">>]
                      /\ resp' = [status |-> 200,
                                  body |-> PixelBody(loc, <<"YYYY-MM-dd">>),
                                  headers |-> JsonHeaders]
       ELSE /\ up' = up
            /\ calls' = calls
            /\ loc' = [loc EXCEPT !.image_date = CompositeDate(loc.year, loc.month)]
            /\ resp' = [status |-> 200,
                        body |-> PixelBody(loc, CompositeDate(loc.year, loc.month)),
                        headers |-> JsonHeaders]
    /\ UNCHANGED <<impl, endpoint, req, now, http, proc, peer>>
    /\ UNCHANGED dvars

----------------------------------------------------------------------------

\* The response has been sent; the process waits for the next request.
Return ==
    /\ pc = "done"
    /\ pc' = "idle"
    /\ impl' = "flask"
    /\ endpoint' = "map"
    /\ req' = NoRequest
    /\ loc' = Loc0
    /\ up' = Up0
    /\ calls' = <<>>
    /\ resp' = NoResp
    /\ http' = NoHttp
    /\ UNCHANGED <<now, proc, peer>>
    /\ UNCHANGED dvars

Next ==
    \/ Receive
    \/ LambdaHandler
    \/ Validate
    \/ InitializeGee
    \/ ResolveAoi
    \/ FilterCollection
    \/ MapCollectionSize
    \/ ImageInfo
    \/ GetMapId
    \/ PixelCollectionSize
    \/ SamplePixel
    \/ ImageDate
    \/ Return

Spec == Init /\ [][Next]_vars

----------------------------------------------------------------------------
(* Requests served at the same time *)

\* What another thread's request does to the process: it passes validation,
\* runs initialize_gee, makes its remote calls and returns.  Its own
\* variables are its own; it shares the process.
PeerReceive ==
    /\ peer = "idle"
    /\ proc.served < MaxRequests
    /\ peer' = "init"
    /\ proc' = [proc EXCEPT !.served = @ + 1]
    /\ UNCHANGED <<impl, endpoint, req, now, pc, loc, up, calls, resp, http>>
    /\ UNCHANGED dvars

PeerInitializeGee ==
    /\ peer = "init"
    /\ \E env \in EnvRead(proc) : \E o \in InitAnswers(env) :
         /\ proc' = AfterInitialize(proc, env, o)
         /\ peer' = IF o = "ok" THEN "remote" ELSE "idle"
    /\ UNCHANGED <<impl, endpoint, req, now, pc, loc, up, calls, resp, http>>
    /\ UNCHANGED dvars

PeerRemote ==
    /\ peer = "remote"
    /\ peer' = "idle"
    /\ UNCHANGED <<impl, endpoint, req, now, pc, loc, up, calls, resp, http, proc>>
    /\ UNCHANGED dvars

PeerNext == PeerReceive \/ PeerInitializeGee \/ PeerRemote

ThreadedInit == Start("idle")

ThreadedNext == Next \/ PeerNext

\* A process that serves two requests at a time
ThreadedSpec == ThreadedInit /\ [][ThreadedNext]_vars

----------------------------------------------------------------------------
(* deploy.py: LambdaDeployer.deploy() *)

\* Number of runs of deploy() in the model
MaxRuns == 3

\* int(time.time()) ranges over 0..LastSecond in the model
LastSecond == 2

Step(name, out) == [name |-> name, out |-> out]

\* The outcomes with which a step hands over to the next one
StepOk(s) == s.out \in {"ok", "found", "created", "updated"}

Logged(r, name, out) == [r EXCEPT !.steps = Append(@, Step(name, out))]

\* deploy() is called: nothing is bound yet.
Deploy ==
    /\ dpc \in {"idle", "returned"}
    /\ run.n < MaxRuns
    /\ dpc' = "check"
    /\ run' = [n |-> run.n + 1, steps |-> <<>>, zip_path |-> FALSE, wrote |-> FALSE,
               result |-> "none", prev |-> run.result, before |-> cloud,
               time |-> run.time]
    /\ UNCHANGED <<disk, cloud>>
    /\ UNCHANGED svars

\* check_prerequisites: sts.get_caller_identity() fails, one of
\* lambda_function.py and requirements.txt is missing, or all is there.
CheckOutcomes == {"no_credentials", "file_missing", "ok"}

\* if not self.check_prerequisites(): return False
CheckPrerequisites ==
    /\ dpc = "check"
    /\ \E o \in CheckOutcomes :
         /\ run' = [Logged(run, "check_prerequisites", o)
                       EXCEPT !.result = IF o = "ok" THEN @ ELSE "False"]
         /\ dpc' = IF o = "ok" THEN "package" ELSE "returned"
    /\ UNCHANGED <<disk, cloud>>
    /\ UNCHANGED svars

\* create_deployment_package: pip install fails (returns None), copying
\* lambda_function.py raises, writing into the opened archive raises, or the
\* archive is written.
PackageOutcomes == {"pip_failed", "copy_failed", "zip_failed", "ok"}

\* with zipfile.ZipFile(zip_path, 'w', ...): the file is on disk once opened.
ArchiveOpened(o) == o \in {"zip_failed", "ok"}

\* deploy() going on to create_iam_role although the package is None
PackageNext_NoneIgnored(o) ==
    CASE o \in {"ok", "pip_failed"} -> "role"
      [] OTHER                      -> "except"

\* zip_path = self.create_deployment_package(); if not zip_path: return False
PackageNext(o) ==
    CASE o = "ok"         -> "role"
      [] o = "pip_failed" -> "returned"
      [] OTHER            -> "except"

CreateDeploymentPackage ==
    /\ dpc = "package"
    /\ \E o \in PackageOutcomes :
         /\ disk' = [disk EXCEPT !.zip = IF ArchiveOpened(o) THEN TRUE ELSE @]
         /\ run' = [Logged(run, "create_deployment_package", o)
                       EXCEPT !.zip_path = (o = "ok"),
                              !.wrote = ArchiveOpened(o),
                              !.result = IF PackageNext(o) = "returned"
                                         THEN "False" ELSE @]
         /\ dpc' = PackageNext(o)
    /\ UNCHANGED cloud
    /\ UNCHANGED svars

\* get_role answers with the role, with NoSuchEntity or with another error;
\* create_role and attach_role_policy succeed or raise.
RoleAnswers(role) ==
    IF role.exists THEN {"found", "error"}
    ELSE {"created", "create_failed", "attach_failed", "error"}

RoleAfter(role, o) ==
    CASE o = "created"       -> [exists |-> TRUE, policy |-> TRUE]
      [] o = "attach_failed" -> [exists |-> TRUE, policy |-> FALSE]
      [] OTHER               -> role

CreateIamRole ==
    /\ dpc = "role"
    /\ \E o \in RoleAnswers(cloud.role) :
         /\ cloud' = [cloud EXCEPT !.role = RoleAfter(@, o)]
         /\ run' = Logged(run, "create_iam_role", o)
         /\ dpc' = IF StepOk(Step("create_iam_role", o)) THEN "lambda" ELSE "except"
    /\ UNCHANGED disk
    /\ UNCHANGED svars

\* open(zip_path, 'rb'), then update_function_code and
\* update_function_configuration for an existing function, create_function
\* after ResourceNotFoundException.
FunctionAnswers(f, zip) ==
    IF ~zip THEN {"open_failed"}
    ELSE IF f.exists THEN {"updated", "code_failed", "config_failed"}
    ELSE {"created", "create_failed"}

\* code and config hold the number of the run that wrote them.
FunctionAfter(f, o, n) ==
    CASE o \in {"updated", "created"} -> [exists |-> TRUE, code |-> n, config |-> n]
      [] o = "config_failed"          -> [f EXCEPT !.code = n]
      [] OTHER                        -> f

DeployLambdaFunction ==
    /\ dpc = "lambda"
    /\ \E o \in FunctionAnswers(cloud.function, disk.zip) :
         /\ cloud' = [cloud EXCEPT !.function = FunctionAfter(@, o, run.n)]
         /\ run' = Logged(run, "deploy_lambda_function", o)
         /\ dpc' = IF StepOk(Step("deploy_lambda_function", o)) THEN "api" ELSE "except"
    /\ UNCHANGED disk
    /\ UNCHANGED svars

Call(op, ep) == [op |-> op, ep |-> ep]

\* The calls create_api_gateway makes for one endpoint, in order
EndpointCalls(ep) ==
    << Call("create_resource", ep), Call("put_method GET", ep),
       Call("put_method OPTIONS", ep), Call("put_integration GET", ep),
       Call("put_method_response OPTIONS", ep), Call("put_integration OPTIONS", ep),
       Call("put_integration_response OPTIONS", ep) >>

\* if not api_id: the calls that build a new API, in order
ApiPlan ==
    << Call("create_rest_api", ""), Call("get_resources", ""),
       Call("create_resource", "api") >>
    \o EndpointCalls("map") \o EndpointCalls("pixel_value")
    \o << Call("create_deployment", "prod") >>

\* The API after the given calls have been made
ApiAfter(api, done) ==
    LET made(c) == \E k \in 1..Len(done) : done[k] = c
    IN  [count        |-> api.count + (IF made(Call("create_rest_api", "")) THEN 1 ELSE 0),
         api_resource |-> api.api_resource \/ made(Call("create_resource", "api")),
         endpoints    |-> [e \in EndpointNames |->
                             api.endpoints[e]
                               \cup {done[k].op : k \in {j \in 1..Len(done) : done[j].ep = e}}],
         deployed     |-> api.deployed \/ made(Call("create_deployment", "prod"))]

\* StatementId=f"apigateway-{int(time.time())}": add_permission answers
\* ResourceConflictException for a statement id the policy holds already;
\* another ClientError is printed as a warning.
PermissionAnswers(perms, sid) ==
    IF sid \in perms THEN {"conflict"} ELSE {"added", "client_error"}

\* What create_api_gateway meets: get_rest_apis raises; or one of the calls
\* that build the API raises after `done` of them were made (none is made
\* for an API found by its name); or all are made and get_caller_identity
\* raises, or add_permission is called at second sid.
ApiAnswers(api, perms, t0) ==
    LET n == IF api.count > 0 THEN 0 ELSE Len(ApiPlan)
    IN  {[done |-> 0, at |-> "get_rest_apis", sid |-> t0, perm |-> "none"]}
        \cup {[done |-> k, at |-> "build", sid |-> t0, perm |-> "none"] : k \in 0..(n - 1)}
        \cup {[done |-> n, at |-> "get_caller_identity", sid |-> t0, perm |-> "none"]}
        \cup {[done |-> n, at |-> "none", sid |-> t, perm |-> p] :
                 t \in t0..LastSecond, p \in {"added", "client_error", "conflict"}}

CreateApiGateway ==
    /\ dpc = "api"
    /\ \E o \in ApiAnswers(cloud.api, cloud.permissions, run.time) :
         /\ o.at = "none" => o.perm \in PermissionAnswers(cloud.permissions, o.sid)
         /\ cloud' = [cloud EXCEPT
                        !.api = ApiAfter(@, SubSeq(ApiPlan, 1, o.done)),
                        !.permissions = IF o.perm = "added" THEN @ \cup {o.sid} ELSE @]
         /\ run' = [Logged(run, "create_api_gateway",
                           IF o.at = "none" THEN "ok" ELSE o.at)
                       EXCEPT !.time = o.sid]
         /\ dpc' = IF o.at = "none" THEN "cleanup" ELSE "except"
    /\ UNCHANGED disk
    /\ UNCHANGED svars

\* cleanup: if os.path.exists(zip_path): os.remove(zip_path)
Removed(d) == [d EXCEPT !.zip = FALSE]

\* self.cleanup(zip_path) ... return True
Cleanup ==
    /\ dpc = "cleanup"
    /\ disk' = Removed(disk)
    /\ run' = [Logged(run, "cleanup", "ok") EXCEPT !.result = "True"]
    /\ dpc' = "returned"
    /\ UNCHANGED cloud
    /\ UNCHANGED svars

\* except Exception: if 'zip_path' in locals(): self.cleanup(zip_path);
\* return False
ExceptClause ==
    /\ dpc = "except"
    /\ IF run.zip_path
       THEN /\ disk' = Removed(disk)
            /\ run' = [Logged(run, "cleanup", "after_failure") EXCEPT !.result = "False"]
       ELSE /\ disk' = disk
            /\ run' = [run EXCEPT !.result = "False"]
    /\ dpc' = "returned"
    /\ UNCHANGED cloud
    /\ UNCHANGED svars

DeployNext ==
    \/ Deploy
    \/ CheckPrerequisites
    \/ CreateDeploymentPackage
    \/ CreateIamRole
    \/ DeployLambdaFunction
    \/ CreateApiGateway
    \/ Cleanup
    \/ ExceptClause

\* deploy.py run any number of times against one account and one directory
DeploySpec == Init /\ [][DeployNext]_vars

----------------------------------------------------------------------------
(* Vocabulary of the properties *)

\* A response has been returned, by lambda_handler itself or by a handler
Returned == pc = "done"

\* One of the four handlers has returned its response.
Done == Returned /\ endpoint \in Endpoints

Keys == DOMAIN resp.body

ValueKeys == {"url", "temperature_celsius", "ndvi_value"}

SuccessKeys == IF endpoint = "map" THEN {"url"} ELSE {"temperature_celsius", "ndvi_value"}

\* The response is an error with the given status: it has an error field and
\* carries neither a url nor a value.
ErrorReply(status) ==
    /\ resp.status = status
    /\ "error" \in Keys
    /\ Keys \cap ValueKeys = {}

IsInteger(a) == a.present /\ PyInt(a.text).ok

Unparsable(a) == a.present /\ ~PyInt(a.text).ok

\* The year and month a request asks for: the given integer, or the default
\* when the parameter is left out.
AskedYear  == IF req.year.present THEN PyInt(req.year.text).val ELSE DefaultYear
AskedMonth == IF req.month.present THEN PyInt(req.month.text).val ELSE DefaultMonth

DateGiven == ~Unparsable(req.year) /\ ~Unparsable(req.month)

LaterThanNow(y, m) == y > now.year \/ (y = now.year /\ m > now.month)

LowerChar(c) ==
    CASE c = "L" -> "l" [] c = "S" -> "s" [] c = "T" -> "t" [] c = "N" -> "n"
      [] c = "D" -> "d" [] c = "V" -> "v" [] c = "I" -> "i"
      [] OTHER -> c

\* t is word in some mix of upper and lower case
CasingOf(t, word) ==
    /\ Len(t) = Len(word)
    /\ \A k \in 1..Len(word) : t[k] = word[k] \/ t[k] = LowerChar(word[k])

TypeAccepted(a) == ~a.present \/ CasingOf(a.text, LST) \/ CasingOf(a.text, NDVI)

IsNumber(a) == a.present /\ PyFloat(a.text).kind = "num"

LatOutside == IsNumber(req.lat) /\ ~FloatBetween(-90, PyFloat(req.lat.text), 90)
LngOutside == IsNumber(req.lng) /\ ~FloatBetween(-180, PyFloat(req.lng.text), 180)

CoordinatesValid ==
    /\ IsNumber(req.lat) /\ ~LatOutside
    /\ IsNumber(req.lng) /\ ~LngOutside

\* The request satisfies every rule of the parameter validator.
ValidParameters ==
    /\ DateGiven
    /\ 2000 <= AskedYear /\ AskedYear <= now.year
    /\ 1 <= AskedMonth /\ AskedMonth <= 12
    /\ ~LaterThanNow(AskedYear, AskedMonth)
    /\ TypeAccepted(req.type)
    /\ endpoint = "pixel" => CoordinatesValid

----------------------------------------------------------------------------
(* Properties *)

\* C1: in all four handlers a request whose year is an integer outside
\* [2000, current year] is answered 400 with an error body and no url or
\* value.
C1_YearOutOfRangeIs400 ==
    (Done /\ IsInteger(req.year)
          /\ ~(2000 <= AskedYear /\ AskedYear <= now.year))
        => ErrorReply(400)

\* C2: in all four handlers a request whose (year, month) is later than the
\* current (year, month) is answered 400, whatever type, aoi, lat and lng are.
C2_FutureDateIs400 ==
    (Done /\ DateGiven /\ LaterThanNow(AskedYear, AskedMonth))
        => ErrorReply(400)

\* A Lambda handler has rejected a well-formed request for a year after the
\* current one.
C2_Witness ==
    /\ Done /\ impl = "lambda"
    /\ IsInteger(req.year) /\ AskedYear > now.year
    /\ DateGiven /\ 1 <= AskedMonth /\ AskedMonth <= 12
    /\ TypeAccepted(req.type)
    /\ endpoint = "pixel" => CoordinatesValid
    /\ resp.status = 400

\* C3: in all four handlers a request whose month is an integer outside
\* [1, 12] is answered 400 with an error body.
C3_MonthOutOfRangeIs400 ==
    (Done /\ IsInteger(req.month) /\ ~(1 <= AskedMonth /\ AskedMonth <= 12))
        => ErrorReply(400)

\* C4: every casing of LST or NDVI passes the type check and is handled as
\* the upper-case value; every other type text is answered 400.
C4_TypeMatchedCaseInsensitively ==
    /\ (Done /\ req.type.present /\ TypeAccepted(req.type))
          => ~("error" \in Keys /\ resp.body.error = TypeMessage)
    /\ (req.type.present /\ CasingOf(req.type.text, LST) /\ loc.data_type # <<>>)
          => loc.data_type = LST
    /\ (req.type.present /\ CasingOf(req.type.text, NDVI) /\ loc.data_type # <<>>)
          => loc.data_type = NDVI
    /\ (Done /\ ~TypeAccepted(req.type)) => ErrorReply(400)

\* C5: on the pixel endpoint a request with lat or lng missing, or lat
\* outside [-90, 90], or lng outside [-180, 180] is answered 400; the bounds
\* themselves pass the coordinate checks.
C5_BadCoordinatesAre400 ==
    /\ (Done /\ endpoint = "pixel"
             /\ (~req.lat.present \/ ~req.lng.present \/ LatOutside \/ LngOutside))
          => ErrorReply(400)
    /\ (Done /\ endpoint = "pixel" /\ CoordinatesValid /\ "error" \in Keys)
          => resp.body.error \notin {LatMessage, LngMessage}

\* C6: a request whose year or month is present and is no integer is
\* answered 400 with an error, in all four handlers.
C6_UnparsableDateIs400 ==
    (Done /\ (Unparsable(req.year) \/ Unparsable(req.month)))
        => ErrorReply(400)

\* C7: the response to a request with valid parameters, whatever the remote
\* service answered, has a success field (url on the map endpoint,
\* temperature_celsius or ndvi_value on the pixel endpoint) or an error
\* field, and not both.
C7_SuccessXorError ==
    (Done /\ ValidParameters)
        => (Keys \cap SuccessKeys # {}) # ("error" \in Keys)

\* A pixel handler has answered a valid request for which the remote service
\* returned no value.
C7_Witness ==
    /\ Done /\ ValidParameters
    /\ endpoint = "pixel" /\ up.value = "None"
    /\ "error" \in Keys

\* C8: in the pixel operation an empty collection, a sample without a match
\* and an undefined band value each give a no-data error response, never
\* status 500.
C8_PixelNoDataIsNotServerError ==
    (Done /\ endpoint = "pixel"
          /\ (up.size = "0" \/ up.value = "no_match" \/ up.value = "None"))
        => ("error" \in Keys /\ resp.status # 500)

\* C9: the pixel endpoint answers a no-data outcome with status 404 and
\* never answers status 200 with an error field.
C9_PixelNoDataIs404 ==
    (Done /\ endpoint = "pixel")
        => /\ ~(resp.status = 200 /\ "error" \in Keys)
           /\ (up.size = "0" \/ up.value = "None") => resp.status = 404

\* C10: in the map operation a remote failure other than an empty collection
\* or a tile-metadata failure (initialization, the collection size, the
\* selected image's info) is answered with status 500.
C10_MapUpstreamFailureIs500 ==
    (Done /\ endpoint = "map"
          /\ (up.init \in {"no_project_id", "credentials_error", "initialize_error"}
                \/ up.size = "raise" \/ up.info = "raise"))
        => ErrorReply(500)

\* C11: in both map handlers a failed tile-metadata request (getMapId raises,
\* returns nothing, or returns a result without a map id) is answered as a
\* no-data error, with status 404 or with status 200 and an error field, and
\* never with status 500.
C11_TileMetadataFailureIsNoData ==
    (Done /\ endpoint = "map" /\ up.mapid \in {"raise", "None", "no_mapid"})
        => /\ "error" \in Keys
           /\ "url" \notin Keys
           /\ resp.status \in {200, 404}

\* C12: a map request with valid parameters whose filtered collection is
\* empty, the remote service having answered what it was asked about the
\* collection and the image, gets an error whose message is 'No <TYPE> data
\* available ...' and no url, for LST and for NDVI.
C12_EmptyCollectionIsNoData ==
    (Done /\ endpoint = "map" /\ up.coll = "empty"
          /\ up.size # "raise" /\ up.info # "raise")
        => /\ "error" \in Keys
           /\ "url" \notin Keys
           /\ Len(resp.body.error) = 3
           /\ resp.body.error[1] = "No "
           /\ resp.body.error[2] = (IF loc.data_type = LST THEN "LST" ELSE "NDVI")
           /\ resp.body.error[3] =
                  " data available for the specified time range and location"

\* C13: every handler selects the image by the same policy: the most recent
\* image of the filtered collection for LST, the median composite for NDVI.
C13_SameImageSelection ==
    loc.image # "none"
        => loc.image = (IF loc.data_type = LST THEN "first" ELSE "median")

(* Date range *)

MonthTexts ==
    <<"01", "02", "03", "04", "05", "06", "07", "08", "09", "10", "11", "12">>

\* Months since year 0 of the month a date lies in
MonthIndex(d) == 12 * d.year + (d.month - 1)

DateRangeSet == loc.start_date # NoDate

\* C14: in every handler the collection is filtered on the interval from the
\* first day of the requested month to the first day of the following month:
\* the end is year-(month+1)-01 for months 1 to 11 and (year+1)-01-01 for
\* December, a day of the calendar, after the start and one month later.
C14_DateRangeIsOneMonth ==
    DateRangeSet
        => /\ loc.start_date.text =
                  ToString(loc.year) \o "-" \o MonthTexts[loc.month] \o "-01"
           /\ loc.month < 12 =>
                  loc.end_date.text =
                      ToString(loc.year) \o "-" \o MonthTexts[loc.month + 1] \o "-01"
           /\ loc.month = 12 =>
                  loc.end_date.text = ToString(loc.year + 1) \o "-01-01"
           /\ loc.start_date.year = loc.year /\ loc.start_date.month = loc.month
           /\ loc.start_date.day = 1 /\ loc.end_date.day = 1
           /\ loc.end_date.month \in 1..12
           /\ MonthIndex(loc.end_date) = MonthIndex(loc.start_date) + 1

\* The Lambda pixel handler has computed the date range of a December
\* request: it ends on the first of January of the following year.
C14_Witness ==
    /\ DateRangeSet
    /\ impl = "lambda" /\ endpoint = "pixel"
    /\ loc.month = 12 /\ loc.end_date.text = "2025-01-01"

(* Pixel values *)

Abs(n) == IF n < 0 THEN -n ELSE n

\* v is written with at most nd decimals and differs from x by at most half
\* a unit of the last of them.
RoundedTo(v, x, nd) ==
    /\ v.kind = "num" /\ x.kind = "num"
    /\ (v.num * Pow10(nd)) % v.den = 0
    /\ 2 * Pow10(nd) * Abs(v.num * x.den - x.num * v.den) <= v.den * x.den

SameNumber(v, n, d) == v.kind = "num" /\ v.num * d = n * v.den

\* The stored LST number behind the upstream outcome
StoredLst == IF up.value = "15000" THEN 15000 ELSE 13000

\* The NDVI behind the upstream outcome
UpstreamNdvi ==
    CASE up.value = "0.123456" -> [kind |-> "num", num |-> 123456, den |-> 1000000]
      [] up.value = "0.8768"   -> [kind |-> "num", num |-> 8768, den |-> 10000]
      [] OTHER                 -> [kind |-> "num", num |-> -456, den |-> 10000]

PixelSuccess == Done /\ endpoint = "pixel" /\ resp.status = 200 /\ "error" \notin Keys

\* C15: a successful pixel response for NDVI carries ndvi_value, the upstream
\* value rounded to 3 decimals (0.123456 gives 0.123); for LST it carries
\* temperature_celsius, the stored number times 0.02 minus 273.15 rounded to
\* 2 decimals (15000 gives 26.85); the message shows the same rounded number
\* and the key of the other data type is absent.
C15_PixelValueRounded ==
    PixelSuccess
        => IF loc.data_type = LST
           THEN /\ "temperature_celsius" \in Keys /\ "ndvi_value" \notin Keys
                /\ RoundedTo(resp.body.temperature_celsius,
                             [kind |-> "num", num |-> 2 * StoredLst - 27315, den |-> 100],
                             2)
                /\ up.value = "15000"
                       => SameNumber(resp.body.temperature_celsius, 2685, 100)
                /\ resp.body.message[2] = resp.body.temperature_celsius
           ELSE /\ "ndvi_value" \in Keys /\ "temperature_celsius" \notin Keys
                /\ RoundedTo(resp.body.ndvi_value, UpstreamNdvi, 3)
                /\ up.value = "0.123456"
                       => SameNumber(resp.body.ndvi_value, 123, 1000)
                /\ resp.body.message[2] = resp.body.ndvi_value

\* A pixel handler has returned an NDVI value that rounding moved up.
C15_Witness ==
    /\ PixelSuccess
    /\ up.value = "0.8768"
    /\ SameNumber(resp.body.ndvi_value, 877, 1000)

(* Area of interest *)

\* The aoi parameter is absent, empty or blank, is no JSON, is no JSON
\* object, has no type or a type other than rectangle and polygon, lacks
\* bounds or coordinates, or is refused by the geometry constructor.
AoiProblem(a) ==
    a \in {AbsentAoi, Arg(""), Arg(AoiBlank), Arg(AoiBroken), Arg(AoiList),
           Arg(AoiNoType), Arg(AoiCircle), Arg(AoiNoBounds), Arg(AoiNoCoordinates),
           Arg(AoiBadBounds)}

\* C16: in both map handlers a problem with the aoi parameter never ends the
\* request: the handler goes on with the default rectangle
\* [-65, -10, -55, -2] and with nothing else changed, as it does for the same
\* request without aoi.
C16_AoiProblemGivesDefault ==
    [][(pc = "aoi" /\ AoiProblem(req.aoi))
          => /\ pc' = "filter"
             /\ resp' = NoResp
             /\ loc' = [loc EXCEPT !.aoi = [kind |-> "rectangle",
                                            coords |-> <<-65, -10, -55, -2>>]]
             /\ up' = up /\ calls' = calls]_vars

\* A map handler has gone on with the default rectangle after the geometry
\* constructor refused the bounds of the request.
C16_Witness ==
    /\ endpoint = "map" /\ pc = "filter"
    /\ req.aoi = Arg(AoiBadBounds)
    /\ loc.aoi = DefaultAoi

(* Failures, the process and its threads *)

\* The steps of a handler after the validation of its parameters
HandlerStep ==
    \/ InitializeGee \/ ResolveAoi \/ FilterCollection
    \/ MapCollectionSize \/ ImageInfo \/ GetMapId
    \/ PixelCollectionSize \/ SamplePixel \/ ImageDate

BadFloat(a) == a.present /\ PyFloat(a.text).kind = "error"

\* int() or float() raised in a Lambda handler, or the router raised on the
\* path of the event.
ParsingRaised ==
    /\ impl = "lambda"
    /\ \/ endpoint = "none" /\ http.method # "OPTIONS" /\ http.path.null
       \/ endpoint \in Endpoints /\ (Unparsable(req.year) \/ Unparsable(req.month))
       \/ endpoint = "pixel" /\ (BadFloat(req.lat) \/ BadFloat(req.lng))

InitializationRaised ==
    up.init \in {"no_project_id", "credentials_error", "initialize_error"}

RemoteRaised ==
    \/ up.size = "raise" \/ up.info = "raise" \/ up.mapid = "raise"
    \/ up.sample = "None" \/ up.value \in {"error", "no_match"}
    \/ up.date = "raise"

\* C17: whatever parsing, initialization or the remote service raise, the
\* handler goes on to a response with a status code and a body holding an
\* error text and no result; validation ends in one of its three ways and
\* no later handler position is without a next step; once the response is
\* sent nothing of the request remains in the handler.
C17_FailuresBecomeErrorResponses ==
    /\ Returned => resp.status \in {200, 400, 404, 500}
    /\ (Returned /\ (ParsingRaised \/ InitializationRaised \/ RemoteRaised))
          => /\ "error" \in Keys
             /\ Len(resp.body.error) >= 1
             /\ Keys \cap ValueKeys = {}
    /\ pc = "validate"
          => HandlerValidate(impl, endpoint, req, now).kind \in {"pass", "reply", "raise"}
    /\ pc \notin {"idle", "validate", "done"} => ENABLED HandlerStep
    /\ Returned => ENABLED Return
    /\ pc = "idle"
          => (loc = Loc0 /\ up = Up0 /\ calls = <<>> /\ resp = NoResp /\ http = NoHttp)

\* The Flask pixel handler has answered 500 with an error after the remote
\* service failed to return the value.
C17_Witness ==
    /\ Done /\ impl = "flask" /\ endpoint = "pixel"
    /\ up.value = "error"
    /\ resp.status = 500 /\ "error" \in Keys

\* C18: once ee.Initialize has succeeded in a process, no later request of
\* the process runs the initialization again: it neither calls ee.Initialize
\* nor writes a key file.
C18_InitializedAtMostOnce ==
    [][(pc = "init" /\ proc.session # "none")
          => (calls' = calls /\ proc'.key_files = proc.key_files)]_vars

RequestVars == <<impl, endpoint, req, now, pc, loc, up, calls, resp, http>>

PastInit == pc \in {"aoi", "filter", "size", "info", "mapid", "sample", "date"}

C20_ValidationBeforeEffects ==
    (Returned /\ resp.status = 400) => (calls = <<>> /\ up = Up0)

\* The Lambda pixel handler has rejected a request.
C20_Witness ==
    /\ Done /\ resp.status = 400
    /\ impl = "lambda" /\ endpoint = "pixel"
    /\ calls = <<>>

(* Initialization before remote operations *)

\* The operations that fetch from the remote service
RemoteOps == {"size.getInfo", "image.getInfo", "getMapId", "sample.getInfo", "date.getInfo"}

RemoteCalled == \E k \in 1..Len(calls) : calls[k] \in RemoteOps

\* C21: a request builds its filter and fetches from the remote service
\* only after its own initialize_gee has succeeded, ee.Initialize coming
\* first among its external operations; when initialize_gee fails the
\* request ends with status 500 and has fetched nothing.
C21_RemoteOnlyAfterInitialization ==
    /\ (RemoteCalled \/ up.coll # "none" \/ PastInit) => up.init = "ok"
    /\ \A k \in 1..Len(calls) :
          calls[k] \in RemoteOps => \E j \in 1..(k - 1) : calls[j] = "Initialize"
    /\ (Returned /\ InitializationRaised)
          => (resp.status = 500 /\ "error" \in Keys /\ ~RemoteCalled)

\* The Lambda map handler has answered 500 after ee.Initialize failed.
C21_Witness ==
    /\ Returned /\ impl = "lambda" /\ endpoint = "map"
    /\ up.init = "initialize_error"
    /\ resp.status = 500 /\ ~RemoteCalled

(* Response headers *)

\* The kinds of answer lambda_handler gives
LambdaAnswered == pc = "done" /\ impl = "lambda"

\* C22: every response lambda_handler returns, from a handler or from the
\* router itself, carries the header Access-Control-Allow-Origin: *.
C22_EveryLambdaResponseAllowsAnyOrigin ==
    LambdaAnswered => (resp.status # 0 /\ AllowOrigin \in resp.headers)

\* lambda_handler has answered an OPTIONS event, and the reply allows any
\* origin.
C22_Witness ==
    /\ LambdaAnswered /\ http.method = "OPTIONS"
    /\ resp.status = 200 /\ AllowOrigin \in resp.headers

(* The HTTP surface *)

\* The request in hand is a GET of /api/map or /api/pixel_value
GetOfEndpoint ==
    http.method = "GET" /\ http.path \in {PathOf(ApiMap), PathOf(ApiPixel)}

\* C23: a handler runs only for GET /api/map and GET /api/pixel_value; for
\* any other method or path no handler is entered and no external
\* operation is made.
C23_OnlyGetEndpointsRunPipeline ==
    (pc # "idle" /\ ~GetOfEndpoint)
        => (endpoint = "none" /\ pc = "done" /\ calls = <<>>)

(* No-data replies of the pixel handlers *)

\* A pixel handler has answered, after validation, that there is no data:
\* an error that is neither a validation error nor a server error.
PixelNoData ==
    /\ Done /\ endpoint = "pixel"
    /\ "error" \in Keys
    /\ resp.status \notin {400, 500}

\* C24: every no-data reply of a pixel handler repeats the request's lat,
\* lng, year, month and data_type next to the error.
C24_PixelNoDataEchoesRequest ==
    PixelNoData =>
        /\ {"lat", "lng", "year", "month", "data_type"} \subseteq Keys
        /\ resp.body.lat = loc.lat /\ resp.body.lng = loc.lng
        /\ resp.body.year = loc.year /\ resp.body.month = loc.month
        /\ resp.body.data_type = TypeName(loc.data_type)

(* Defaults of year, month and type *)

\* The request with every omitted year, month and type written out
Explicit(q) ==
    [q EXCEPT !.year  = IF @.present THEN @ ELSE Arg(<<"2", "0", "2", "4">>),
              !.month = IF @.present THEN @ ELSE Arg(<<"7">>),
              !.type  = IF @.present THEN @ ELSE Arg(<<"L", "S", "T">>)]

OmitsParameter == ~req.year.present \/ ~req.month.present \/ ~req.type.present

SameOutcome(a, b) ==
    /\ a.kind = b.kind
    /\ a.status = b.status
    /\ DOMAIN a.body = DOMAIN b.body

\* C26: the Flask handler and the Lambda handler of an endpoint treat the
\* request in hand alike at the given date: the same status code, the same
\* keys in the body, an error in both or in neither.
C26_FlaskAndLambdaAgree ==
    (pc = "validate" /\ endpoint \in Endpoints)
        => SameOutcome(HandlerValidate("flask", endpoint, req, now),
                       HandlerValidate("lambda", endpoint, req, now))

(* Deployment *)

\* deploy() has returned
DeployReturned == dpc = "returned"

\* What the API needs to serve an endpoint: its resource, the GET method
\* and the GET integration with the Lambda function
GetIntegrated == {"create_resource", "put_method GET", "put_integration GET"}

\* The REST API exists with /api/map and /api/pixel_value, each with its
\* GET method integrated, and is deployed to 'prod'.
StackComplete ==
    /\ cloud.api.count = 1
    /\ cloud.api.api_resource
    /\ \A e \in EndpointNames : GetIntegrated \subseteq cloud.api.endpoints[e]
    /\ cloud.api.deployed

\* C27: whenever deploy() has returned True the stack is complete, whatever
\* runs came before.
C27_SuccessMeansCompleteStack ==
    (DeployReturned /\ run.result = "True") => StackComplete

\* C28: whenever deploy() has returned, no archive written during the run
\* is left on disk.
C28_NoArchiveLeftBehind ==
    DeployReturned => ~(run.wrote /\ disk.zip)

\* The resources of the account, without the contents of the function
Resources(c) ==
    [role |-> c.role, function |-> c.function.exists, api |-> c.api,
     permissions |-> c.permissions]

\* C29: a successful run that follows a successful run, in an account that
\* holds the invoke permission already, leaves the resources as they were:
\* no further role, function, API, resource, method or permission statement.
C29_RerunAddsNoResource ==
    (DeployReturned /\ run.result = "True" /\ run.prev = "True"
        /\ run.before.permissions # {})
        => Resources(cloud) = Resources(run.before)

\* The steps of deploy() in their order
StepOrder ==
    << "check_prerequisites", "create_deployment_package", "create_iam_role",
       "deploy_lambda_function", "create_api_gateway", "cleanup" >>

LastStep == run.steps[Len(run.steps)]

C30_WitnessSuccess ==
    /\ DeployReturned /\ run.result = "True"
    /\ [k \in 1..Len(run.steps) |-> run.steps[k].name] = StepOrder

====
